---- MODULE Spec2Model ----
(***************************************************************************)
(* Model of the YIWeHa Home Assistant integration: the MidnightCoordinator *)
(* (src/__init__.py), the scraper's fetch outcome (src/scraper.py) and the *)
(* sensors (src/sensor.py), under Spec; the scraper's day map under        *)
(* ScraperSpec; the config flow (src/config_flow.py, src/hebcal.py) under  *)
(* FlowSpec.                                                               *)
(*                                                                         *)
(* Time is a natural number of clock ticks; a day is DayLen ticks long.    *)
(* Python's None is NoTime for a timestamp, NoData for coordinator.data    *)
(* and the string "None" for the three-valued is_on.                       *)
(***************************************************************************)
EXTENDS Integers, Sequences, FiniteSets

\* ---------------------------------------------------------------- bounds
MaxTime == 3
DayLen == 2
MaxItems == 3
MaxEntries == 3

\* None, for a timestamp (sensor.py: self.past_event = None)
NoTime == -1

Times == 0..MaxTime

Sensors == {"last_candle", "last_havdalah"}

VARIABLES
    now,              \* datetime.now()
    data,             \* coordinator.data
    sensors,          \* past_event / next_event of the two Last* sensors
    timers,           \* pending async_track_point_in_time calls of each Last* sensor
    midnight_timers,  \* pending async_track_point_in_time calls of the coordinator
    started,          \* the Home Assistant start event has been delivered
    registered,       \* the coordinator is in hass.data[DOMAIN] and the entry's
                      \* entities are set up
    scraper,          \* a YIWHScraper driven on its own (ScraperSpec): its days
                      \* and the response its last scrape_calendar was given
    flow,             \* the config flow (FlowSpec): the errors and result of
                      \* the last user step, the answer HebCal gave it and the
                      \* number of entries created
    last_op,          \* the operation that ran last
    last_run          \* what the last operation did: the fetch's response and
                      \* exception, the handler's status, whether update_events
                      \* ran and whether it wrote the states

vars == <<now, data, sensors, timers, midnight_timers, started, registered,
          scraper, flow, last_op, last_run>>

\* coordinator.data is None (DataUpdateCoordinator.__init__)
NoData == [loaded |-> FALSE, candle_lighting |-> <<>>, havdalah |-> <<>>]

\* ------------------------------------------------------- python built-ins
\* min(list) / max(list): one pass keeping the best element so far
RECURSIVE MinFrom(_, _)
MinFrom(best, seq) ==
    IF seq = <<>> THEN best
    ELSE MinFrom(IF Head(seq) < best THEN Head(seq) ELSE best, Tail(seq))

Min(seq) == MinFrom(Head(seq), Tail(seq))

RECURSIVE MaxFrom(_, _)
MaxFrom(best, seq) ==
    IF seq = <<>> THEN best
    ELSE MaxFrom(IF Head(seq) > best THEN Head(seq) ELSE best, Tail(seq))

Max(seq) == MaxFrom(Head(seq), Tail(seq))

\* sorted(...) taking the largest first
RECURSIVE sorted_descending(_)
sorted_descending(S) ==
    IF S = {} THEN <<>>
    ELSE LET m == CHOOSE x \in S : \A y \in S : x >= y
         IN <<m>> \o sorted_descending(S \ {m})

\* sorted(...) of events with distinct datetimes (Event.__lt__ compares datetime)
RECURSIVE sorted(_)
sorted(S) ==
    IF S = {} THEN <<>>
    ELSE LET m == CHOOSE x \in S : \A y \in S : x <= y
         IN <<m>> \o sorted(S \ {m})

\* future_times with the comparison >= in place of >
future_times_inclusive(times, t) == SelectSeq(times, LAMBDA e : e >= t)

\* [event for event in times if event.datetime > now]
future_times(times, t) == SelectSeq(times, LAMBDA e : e > t)

\* [event for event in times if event.datetime <= now]
past_times(times, t) == SelectSeq(times, LAMBDA e : e <= t)

\* ---------------------------------------------------------------- scraper
\* The calendar page has one cell per day; CalendarDay keeps at most one
\* candle_lighting and one havdalah event, whose datetime lies on the day of
\* the cell, and YIWHScraper.days is keyed by that day.
Days == 0..(MaxTime \div DayLen)

DayTimes(day) == {t \in Times : t \div DayLen = day}

CalendarDay(day) ==
    [candle_lighting : DayTimes(day) \cup {NoTime}, havdalah : DayTimes(day) \cup {NoTime}]

NoDays == [day \in Days |-> [candle_lighting |-> NoTime, havdalah |-> NoTime]]

Pages ==
    {days \in [Days -> [candle_lighting : Times \cup {NoTime}, havdalah : Times \cup {NoTime}]] :
        \A day \in Days : days[day] \in CalendarDay(day)}

\* What the calendar site answers to requests.get: a network error, a status
\* other than 200, a page without day cells, a page that lacks the cell of
\* today (get_today), a page with a cell that has no date CalendarDay.init
\* can parse (undated: the day whose cell follows it), or a page of day cells.
Failures == {"network_error", "bad_status", "no_cells", "no_today", "undated_cell"}
Responses ==
    [kind : Failures \ {"undated_cell"}, days : {NoDays}, undated : {NoTime}]
        \cup [kind : {"undated_cell"}, days : {NoDays}, undated : Days]
        \cup [kind : {"page"}, days : Pages, undated : {NoTime}]

get_candle_lightings(days) ==
    sorted({days[day].candle_lighting : day \in Days} \ {NoTime})

get_havdalahs(days) ==
    sorted({days[day].havdalah : day \in Days} \ {NoTime})

parse_calendar_html(resp) ==
    IF resp.kind = "no_cells"
    THEN [raised |-> "ValueError", value |-> NoData]
    ELSE IF resp.kind = "undated_cell"
    THEN [raised |-> "AttributeError", value |-> NoData]
    ELSE IF resp.kind = "no_today"
    THEN [raised |-> "KeyError", value |-> NoData]
    ELSE [raised |-> "None",
          value |-> [loaded |-> TRUE,
                     candle_lighting |-> get_candle_lightings(resp.days),
                     havdalah |-> get_havdalahs(resp.days)]]

\* self.days after parse_calendar_html: untouched when there are no day
\* cells; otherwise emptied and filled cell by cell in page order, up to the
\* first cell whose CalendarDay has no date (self.days[day.date] raises).
parse_calendar_html_days(days, resp, t) ==
    IF resp.kind = "no_cells" THEN days
    ELSE IF resp.kind = "undated_cell"
    THEN [day \in {d \in Days : d < resp.undated} |-> resp.days[day]]
    ELSE IF resp.kind = "no_today"
    THEN [day \in Days \ {t \div DayLen} |-> resp.days[day]]
    ELSE resp.days

\* self.days after scrape_calendar: parse_calendar_html is called only with
\* a response of status 200
scrape_calendar_days(days, resp, t) ==
    IF resp.kind \in {"network_error", "bad_status"} THEN days
    ELSE parse_calendar_html_days(days, resp, t)

\* scrape_calendar answering a failed request with an empty result
scrape_calendar_swallow(resp) ==
    IF resp.kind \in {"network_error", "bad_status"}
    THEN [raised |-> "None",
          value |-> [loaded |-> TRUE, candle_lighting |-> <<>>, havdalah |-> <<>>]]
    ELSE parse_calendar_html(resp)

scrape_calendar(resp) ==
    IF resp.kind = "network_error"
    THEN [raised |-> "ConnectionError", value |-> NoData]
    ELSE IF resp.kind = "bad_status"
    THEN [raised |-> "ConnectionError", value |-> NoData]
    ELSE parse_calendar_html(resp)

\* every response with what scrape_calendar makes of it
Fetches == {[resp |-> r, out |-> scrape_calendar(r)] : r \in Responses}

\* ---------------------------------------------------------------- sensors
next_native_value(d, key, t) ==
    IF ~d.loaded THEN NoTime
    ELSE IF d[key] = <<>> THEN NoTime
    ELSE LET future == future_times(d[key], t)
         IN IF future = <<>> THEN NoTime ELSE Min(future)

NextCandleLightingSensor_native_value(d, t) == next_native_value(d, "candle_lighting", t)

NextHavdalahSensor_native_value(d, t) == next_native_value(d, "havdalah", t)

\* native_value of a Next* sensor arming a timer for the value it returns
NextSensor_timers_arming(tm, d, key, t) ==
    LET value == next_native_value(d, key, t)
    IN IF value = NoTime THEN tm
       ELSE [tm EXCEPT !["last_candle"] = Append(@, value)]

\* the pending timers after native_value of a Next* sensor: it reads
\* coordinator.data and datetime.now(), assigns nothing and arms nothing
NextSensor_timers(tm, d, key, t) == tm

Key(s) == IF s = "last_candle" THEN "candle_lighting" ELSE "havdalah"

\* update_events with the early return testing the lists it has just built
update_events_unguarded(self, d, key, t) ==
    IF ~d.loaded
    THEN [past_event |-> NoTime, next_event |-> NoTime, written |-> FALSE, scheduled |-> FALSE]
    ELSE IF d[key] = <<>>
    THEN [past_event |-> NoTime, next_event |-> NoTime, written |-> FALSE, scheduled |-> FALSE]
    ELSE LET past == past_times(d[key], t)
             future == future_times(d[key], t)
         IN IF past = <<>> \/ future = <<>>
            THEN [past_event |-> IF past = <<>> THEN NoTime ELSE self.past_event,
                  next_event |-> IF future = <<>> THEN NoTime ELSE self.next_event,
                  written |-> FALSE, scheduled |-> FALSE]
            ELSE [past_event |-> Max(past), next_event |-> Min(future),
                  written |-> TRUE, scheduled |-> TRUE]

\* update_events of a Last* sensor: the new past_event and next_event,
\* whether the run wrote the states (async_write_ha_state of the sensor and
\* of SENSORS["issur_melacha"]) and whether it reached schedule_next_update.
update_events(self, d, key, t) ==
    IF ~d.loaded
    THEN [past_event |-> NoTime, next_event |-> NoTime, written |-> FALSE, scheduled |-> FALSE]
    ELSE IF d[key] = <<>>
    THEN [past_event |-> NoTime, next_event |-> NoTime, written |-> FALSE, scheduled |-> FALSE]
    ELSE LET past == past_times(d[key], t)
             future == future_times(d[key], t)
             past_event == IF past = <<>> THEN NoTime ELSE self.past_event
             next_event == IF future = <<>> THEN NoTime ELSE self.next_event
         IN IF past_event = NoTime \/ next_event = NoTime
            THEN [past_event |-> past_event, next_event |-> next_event,
                  written |-> FALSE, scheduled |-> FALSE]
            ELSE [past_event |-> Max(past), next_event |-> Min(future),
                  written |-> TRUE, scheduled |-> TRUE]

LastCandleLightingSensor_update_events(self, d, t) ==
    update_events(self, d, "candle_lighting", t)

LastHavdalahSensor_update_events(self, d, t) ==
    update_events(self, d, "havdalah", t)

Last_update_events(s, self, d, t) ==
    IF s = "last_candle"
    THEN LastCandleLightingSensor_update_events(self, d, t)
    ELSE LastHavdalahSensor_update_events(self, d, t)

\* the first test of native_value: update_events is called
needs_update(self, t) ==
    self.past_event = NoTime \/ self.next_event = NoTime \/ t >= self.next_event

\* what native_value returns once the update (if any) has run
Last_native_value(self) ==
    IF self.past_event = NoTime \/ self.next_event = NoTime
    THEN NoTime
    ELSE self.past_event

\* is_on without the test for a missing value
IssurMelachaSensor_is_on_unchecked(last_candle, last_havdalah) ==
    IF last_candle > last_havdalah THEN "True" ELSE "False"

IssurMelachaSensor_is_on(last_candle, last_havdalah) ==
    IF last_candle = NoTime \/ last_havdalah = NoTime THEN "None"
    ELSE IF last_candle > last_havdalah THEN "True" ELSE "False"

is_on ==
    IssurMelachaSensor_is_on(sensors["last_candle"].past_event,
                             sensors["last_havdalah"].past_event)

\* ------------------------------------------------------------ coordinator
\* the timedelta until the next midnight
get_next_midnight(t) ==
    LET next_midnight == ((t + DayLen) \div DayLen) * DayLen
    IN next_midnight - t

NoRun == [handler |-> "none", response |-> "none", raised |-> "None",
          status |-> "none", installed |-> FALSE,
          updated |-> FALSE, published |-> FALSE]

Init ==
    /\ now = 0
    /\ data = NoData
    /\ sensors = [s \in Sensors |-> [past_event |-> NoTime, next_event |-> NoTime]]
    /\ timers = [s \in Sensors |-> <<>>]
    /\ midnight_timers = <<>>
    /\ started = FALSE
    /\ registered = TRUE
    /\ scraper = [days |-> <<>>,
                  response |-> [kind |-> "none", days |-> NoDays, undated |-> NoTime]]
    /\ flow = [errors |-> "none", result |-> "none", entries |-> 0,
               answer |-> [kind |-> "none", items |-> <<>>]]
    /\ last_op = "init"
    /\ last_run = NoRun

Tick ==
    /\ now < MaxTime
    /\ now' = now + 1
    /\ last_op' = "tick"
    /\ last_run' = NoRun
    /\ UNCHANGED <<data, sensors, timers, midnight_timers, started, registered, scraper, flow>>

\* _async_update_data as _handle_startup and _handle_midnight await it: the
\* scrape's return value is dropped by the handler, an exception ends the
\* handler before _schedule_next_midnight. The scheduler is handed the
\* timedelta of get_next_midnight where it takes a point in time: it either
\* rejects the value (the handler ends with that error) or arms the timer for
\* the number it was given.
run_handler(name, fetch, accepted, pending) ==
    LET out == fetch.out
        resp == fetch.resp
        ok == out.raised = "None"
    IN /\ data' = data
       /\ midnight_timers' =
              IF ok /\ accepted
              THEN Append(pending, get_next_midnight(now))
              ELSE pending
       /\ last_run' = [handler |-> name,
                       response |-> resp.kind,
                       raised |-> out.raised,
                       status |-> IF ok /\ accepted THEN "returned" ELSE "raised",
                       installed |-> ok /\ data' = out.value,
                       updated |-> FALSE,
                       published |-> FALSE]
       /\ last_op' = name
       /\ UNCHANGED <<now, sensors, timers, registered, scraper, flow>>

\* async_track_home_assistant_start: delivered once
handle_startup ==
    /\ ~started
    /\ started' = TRUE
    /\ \E fetch \in Fetches, accepted \in BOOLEAN :
           run_handler("startup", fetch, accepted, midnight_timers)

\* a one-shot timer left in the list after it has fired
RemoveAt_keeping(seq, i) == seq

RemoveAt(seq, i) == SubSeq(seq, 1, i - 1) \o SubSeq(seq, i + 1, Len(seq))

\* a pending one-shot midnight timer whose point in time has come
handle_midnight ==
    /\ \E i \in 1..Len(midnight_timers) :
           /\ midnight_timers[i] <= now
           /\ \E fetch \in Fetches, accepted \in BOOLEAN :
                  run_handler("midnight", fetch, accepted, RemoveAt(midnight_timers, i))
    /\ UNCHANGED started

\* DataUpdateCoordinator's refresh, requested from outside the integration
\* (CoordinatorEntity.async_update): it calls _async_update_data, stores what
\* it returns in coordinator.data and keeps the old data when it raises.
\* The Last* sensors are registered disabled (entity_registry_enabled_default
\* False), so the listener round does not read them; their reads are the
\* separate action below.
async_refresh ==
    /\ registered
    /\ \E fetch \in Fetches :
        LET out == fetch.out
            resp == fetch.resp
        IN /\ data' = IF out.raised = "None" THEN out.value ELSE data
           /\ last_run' = [handler |-> "refresh",
                           response |-> resp.kind,
                           raised |-> out.raised,
                           status |-> "returned",
                           installed |-> out.raised = "None" /\ data' = out.value,
                           updated |-> FALSE,
                           published |-> FALSE]
           /\ last_op' = "refresh"
           /\ UNCHANGED <<now, sensors, timers, midnight_timers, started, registered,
                          scraper, flow>>

\* One run of a Last* sensor: a read of native_value (fired = 0), which calls
\* update_events when needs_update, or the callback of one of its pending
\* timers whose time has come (fired = its index), which is update_events.
\* schedule_next_update arms a timer for next_event and overwrites the handle
\* of the previous one without calling it. The entity is read only while the
\* entry is set up; a pending timer fires whether or not it is.
LastSensor_run(s) ==
    \E fired \in (IF registered THEN {0} ELSE {})
                 \cup {i \in 1..Len(timers[s]) : timers[s][i] <= now} :
        LET self == sensors[s]
            updates == fired > 0 \/ needs_update(self, now)
            new == IF updates
                   THEN Last_update_events(s, self, data, now)
                   ELSE [past_event |-> self.past_event,
                         next_event |-> self.next_event,
                         written |-> FALSE,
                         scheduled |-> FALSE]
            kept == IF fired > 0 THEN RemoveAt(timers[s], fired) ELSE timers[s]
        IN /\ sensors' = [sensors EXCEPT ![s] = [past_event |-> new.past_event,
                                                 next_event |-> new.next_event]]
           /\ timers' = [timers EXCEPT ![s] =
                             IF new.scheduled THEN Append(kept, new.next_event)
                             ELSE kept]
           /\ last_op' = IF fired > 0 THEN "timer" ELSE "native_value"
           /\ last_run' = [NoRun EXCEPT !.handler = s,
                                         !.updated = updates,
                                         !.published = new.written]
           /\ UNCHANGED <<now, data, midnight_timers, started, registered, scraper, flow>>

\* a read of Next Candle Lighting / Next Havdalah
NextSensor_read(key) ==
    /\ registered
    /\ timers' = NextSensor_timers(timers, data, key, now)
    /\ last_op' = "next_native_value"
    /\ last_run' = [NoRun EXCEPT !.handler = key]
    /\ UNCHANGED <<now, data, sensors, midnight_timers, started, registered, scraper, flow>>

\* async_unload_entry: when the platforms unload (unload_ok) the entities are
\* removed and the coordinator is popped from hass.data[DOMAIN]. Nothing else
\* is done: the handles that async_track_home_assistant_start and
\* async_track_point_in_time returned were not kept, so no listener or timer
\* of the coordinator is cancelled.
async_unload_entry ==
    /\ registered
    /\ \E unload_ok \in BOOLEAN :
           /\ registered' = ~unload_ok
           /\ last_run' = [NoRun EXCEPT !.handler = "unload",
                                         !.status = IF unload_ok THEN "returned" ELSE "failed"]
    /\ last_op' = "unload"
    /\ UNCHANGED <<now, data, sensors, timers, midnight_timers, started, scraper, flow>>

Next ==
    \/ Tick
    \/ handle_startup
    \/ handle_midnight
    \/ async_refresh
    \/ \E s \in Sensors : LastSensor_run(s)
    \/ \E key \in {"candle_lighting", "havdalah"} : NextSensor_read(key)
    \/ async_unload_entry

Spec == Init /\ [][Next]_vars

\* ------------------------------------------------------- the scraper alone
\* One call of scrape_calendar on a YIWHScraper that is not a coordinator's
\* (scraper.py's own entry point makes one and calls it).
YIWHScraper_scrape_calendar ==
    /\ \E fetch \in Fetches :
           /\ scraper' = [days |-> scrape_calendar_days(scraper.days, fetch.resp, now),
                          response |-> fetch.resp]
           /\ last_run' = [NoRun EXCEPT !.handler = "scraper",
                                         !.response = fetch.resp.kind,
                                         !.raised = fetch.out.raised,
                                         !.status = IF fetch.out.raised = "None"
                                                    THEN "returned" ELSE "raised"]
    /\ last_op' = "scrape"
    /\ UNCHANGED <<now, data, sensors, timers, midnight_timers, started, registered,
                   flow>>

ScraperNext ==
    \/ Tick
    \/ YIWHScraper_scrape_calendar

ScraperSpec == Init /\ [][ScraperNext]_vars

\* ---------------------------------------------------------- the config flow
\* An item of the HebCal answer is its category; its date is its position.
Categories == {"candles", "havdalah", "holiday"}

Items == UNION {[1..n -> Categories] : n \in 0..MaxItems}

\* What hebcal.com answers to requests.get: an exception of requests (a
\* RequestException, which is not a builtin ConnectionError), a builtin
\* ConnectionError, a status other than 200, or the JSON items.
HebCalFailures == {"network_error", "connection_error", "bad_status"}

HebCalResponses ==
    [kind : HebCalFailures, items : {<<>>}] \cup [kind : {"json"}, items : Items]

NoAnswer == [kind |-> "none", items |-> <<>>]

\* returns None on a status other than 200, else the pair of date lists
get_zmanim(resp) ==
    IF resp.kind = "network_error"
    THEN [raised |-> "RequestException", none |-> TRUE,
          candle_lightings |-> <<>>, havdalahs |-> <<>>]
    ELSE IF resp.kind = "connection_error"
    THEN [raised |-> "ConnectionError", none |-> TRUE,
          candle_lightings |-> <<>>, havdalahs |-> <<>>]
    ELSE IF resp.kind = "bad_status"
    THEN [raised |-> "None", none |-> TRUE,
          candle_lightings |-> <<>>, havdalahs |-> <<>>]
    ELSE [raised |-> "None", none |-> FALSE,
          candle_lightings |->
              sorted({i \in 1..Len(resp.items) : resp.items[i] = "candles"}),
          havdalahs |->
              sorted({i \in 1..Len(resp.items) : resp.items[i] = "havdalah"})]

\* HebCal.scrape: unpacks the pair (TypeError on None) and returns a dict
\* with the keys candle_lighting and havdalah, in that order
HebCal_scrape(resp) ==
    LET zmanim == get_zmanim(resp)
    IN IF zmanim.raised # "None"
       THEN [raised |-> zmanim.raised, keys |-> <<>>,
             candle_lighting |-> <<>>, havdalah |-> <<>>]
       ELSE IF zmanim.none
       THEN [raised |-> "TypeError", keys |-> <<>>,
             candle_lighting |-> <<>>, havdalah |-> <<>>]
       ELSE [raised |-> "None", keys |-> <<"candle_lighting", "havdalah">>,
             candle_lighting |-> zmanim.candle_lightings,
             havdalah |-> zmanim.havdalahs]

\* the exception validate_input ends with ("None": it returns the title).
\* candle_lighting, havdalah = <the dict> binds the two names to the dict's
\* keys, which are non-empty strings; the CannotConnect of the emptiness test
\* is raised inside the try, where except Exception turns it into
\* UnknownError.
validate_input(resp) ==
    LET scraped == HebCal_scrape(resp)
    IN IF scraped.raised = "ConnectionError" THEN "CannotConnect"
       ELSE IF scraped.raised # "None" THEN "UnknownError"
       ELSE LET candle_lighting == scraped.keys[1]
                havdalah == scraped.keys[2]
            IN IF candle_lighting = "" /\ havdalah = ""
               THEN "UnknownError"
               ELSE "None"

\* ConfigFlow.async_step_user: without user_input the form is shown; with it,
\* validate_input decides between the form with an error and a new entry.
async_step_user ==
    /\ flow.entries < MaxEntries
    /\ \E resp \in HebCalResponses \cup {NoAnswer} :
           LET user_input == resp # NoAnswer
               raised == IF user_input THEN validate_input(resp) ELSE "None"
               errors == IF raised = "CannotConnect" THEN "cannot_connect"
                         ELSE IF raised = "UnknownError" THEN "unknown"
                         ELSE "none"
               created == user_input /\ raised = "None"
           IN /\ flow' = [errors |-> errors,
                          result |-> IF created THEN "create_entry" ELSE "form",
                          entries |-> IF created THEN flow.entries + 1 ELSE flow.entries,
                          answer |-> resp]
              /\ last_run' = [NoRun EXCEPT !.handler = "flow",
                                            !.response = resp.kind,
                                            !.raised = raised]
    /\ last_op' = "step_user"
    /\ UNCHANGED <<now, data, sensors, timers, midnight_timers, started, registered,
                   scraper>>

FlowNext == async_step_user

FlowSpec == Init /\ [][FlowNext]_vars

\* ------------------------------------------------------------- properties
\* the timestamps of one kind in the loaded data
EventsOf(d, key) == {d[key][i] : i \in 1..Len(d[key])}

SmallestAfter(S, t) ==
    LET F == {e \in S : e > t}
    IN IF F = {} THEN NoTime ELSE CHOOSE m \in F : \A x \in F : m <= x

LargestAtOrBefore(S, t) ==
    LET P == {e \in S : e <= t}
    IN IF P = {} THEN NoTime ELSE CHOOSE m \in P : \A x \in P : m >= x

\* the most recent event at or before t exists and is a candle lighting
Inside(d, t) ==
    LET last_opening == LargestAtOrBefore(EventsOf(d, "candle_lighting"), t)
        last_closing == LargestAtOrBefore(EventsOf(d, "havdalah"), t)
    IN last_opening # NoTime /\ (last_closing = NoTime \/ last_opening > last_closing)

AllTimers == timers["last_candle"] \o timers["last_havdalah"]

Recomputed == last_op \in {"native_value", "timer"}

Reloaded == last_op \in {"startup", "midnight"}

\* C1: at every moment is_on is true exactly when the most recent event at or
\* before now, over both kinds, exists and is a candle lighting.
C1_InsideIffLastIsOpening == (is_on = "True") <=> Inside(data, now)

\* C2: when update_events (the callback of the boundary timer) has just run
\* for a sensor at a boundary of its own kind, the boolean is true after a
\* candle-lighting boundary and not true after a havdalah boundary.
C2_FlipsAtBoundary ==
    \A s \in Sensors :
        (/\ Recomputed
         /\ last_run.handler = s
         /\ now \in EventsOf(data, Key(s))
         /\ now \notin EventsOf(data, Key(CHOOSE o \in Sensors : o # s)))
        => IF s = "last_candle" THEN is_on = "True" ELSE is_on # "True"

\* C3: the Next Candle Lighting / Next Havdalah value is the smallest
\* timestamp of its kind strictly after now, absent when there is none.
C3_NextIsSmallestAfter ==
    /\ NextCandleLightingSensor_native_value(data, now)
           = SmallestAfter(EventsOf(data, "candle_lighting"), now)
    /\ NextHavdalahSensor_native_value(data, now)
           = SmallestAfter(EventsOf(data, "havdalah"), now)

C3_Witness ==
    /\ Cardinality({e \in EventsOf(data, "candle_lighting") : e > now}) = 2
    /\ NextCandleLightingSensor_native_value(data, now) # NoTime
    /\ EventsOf(data, "havdalah") # {}
    /\ NextHavdalahSensor_native_value(data, now) = NoTime

\* C4: a read of Last Candle Lighting / Last Havdalah returns the largest
\* timestamp of its kind at or before now, absent only when there is none.
C4_LastIsLargestAtOrBefore ==
    \A s \in Sensors :
        (last_op = "native_value" /\ last_run.handler = s)
        => Last_native_value(sensors[s]) = LargestAtOrBefore(EventsOf(data, Key(s)), now)

\* C5: at most one wake-up timer of the tracker is pending.
C5_AtMostOneTimer == Len(AllTimers) <= 1

C5_Witness ==
    /\ Recomputed
    /\ \E s \in Sensors :
           /\ last_run.handler = s
           /\ \E e \in EventsOf(data, Key(s)) : e <= now
           /\ \E e \in EventsOf(data, Key(s)) : e > now

\* C6: after a recompute over data with an event later than now, a timer is
\* armed for exactly the earliest event strictly after now over both kinds.
C6_ArmedForEarliestBoundary ==
    LET boundary == SmallestAfter(EventsOf(data, "candle_lighting")
                                  \cup EventsOf(data, "havdalah"), now)
    IN (Recomputed /\ boundary # NoTime) => AllTimers = <<boundary>>

\* C7: after a reload whose scrape returned a result, coordinator.data is
\* the event set that was fetched.
C7_ReloadInstalls ==
    (Reloaded /\ last_run.raised = "None") => last_run.installed

\* C8: a reload whose fetch failed leaves coordinator.data and is_on as they
\* were.
C8_FailedReloadKeepsData ==
    [][(last_op' \in {"startup", "midnight", "refresh"} /\ last_run'.response \in Failures)
       => (data' = data /\ is_on' = is_on)]_vars

C8_Witness ==
    /\ last_op \in {"startup", "midnight", "refresh"}
    /\ last_run.response \in Failures
    /\ data.loaded
    /\ data.candle_lighting # <<>>
    /\ data.havdalah # <<>>

\* C9: after a refresh attempt of the startup or midnight handler has failed,
\* a midnight timer is pending.
C9_TimerArmedAfterFailure ==
    (Reloaded /\ last_run.raised # "None") => midnight_timers # <<>>

\* C10: a failing scrape never ends the startup or midnight handler with an
\* error.
C10_FailureAbsorbed ==
    (Reloaded /\ last_run.response \in Failures) => last_run.status # "raised"

AllEvents(d) == EventsOf(d, "candle_lighting") \cup EventsOf(d, "havdalah")

\* the pending timers a recompute at t over d has to leave
ArmedFor(d, t) ==
    LET boundary == SmallestAfter(AllEvents(d), t)
    IN IF boundary = NoTime THEN <<>> ELSE <<boundary>>

\* update_events has just run for sensor s
Updated(s) == Recomputed /\ last_run.updated /\ last_run.handler = s

HasPastAndFuture(s) ==
    /\ \E e \in EventsOf(data, Key(s)) : e <= now
    /\ \E e \in EventsOf(data, Key(s)) : e > now

\* C11: when the most recent candle lighting and the most recent havdalah
\* share one timestamp, now has reached it and no event is later, is_on is
\* False.
C11_TieIsFalse ==
    LET last_opening == LargestAtOrBefore(EventsOf(data, "candle_lighting"), now)
        last_closing == LargestAtOrBefore(EventsOf(data, "havdalah"), now)
    IN (/\ Recomputed
        /\ last_opening # NoTime
        /\ last_opening = last_closing
        /\ SmallestAfter(AllEvents(data), now) = NoTime)
       => is_on = "False"

NoEvents(d) == d.candle_lighting = <<>> /\ d.havdalah = <<>>

C13_ExhaustedReflectsLast ==
    (/\ Recomputed
     /\ AllEvents(data) # {}
     /\ \A e \in AllEvents(data) : e <= now)
    => /\ AllTimers = <<>>
       /\ IF Inside(data, now) THEN is_on = "True" ELSE is_on # "True"

\* the sensor fields and pending timers after one run of update_events
AfterUpdate(s, self, tm, d, t) ==
    LET new == Last_update_events(s, self, d, t)
    IN [self |-> [past_event |-> new.past_event, next_event |-> new.next_event],
        timers |-> IF new.scheduled THEN Append(tm, new.next_event) ELSE tm]

\* C14: a second run of update_events at the same time over the same data
\* leaves the sensor fields and the pending timers as the first run left them.
C14_Idempotent ==
    \A s \in Sensors :
        LET once == AfterUpdate(s, sensors[s], timers[s], data, now)
            twice == AfterUpdate(s, once.self, once.timers, data, now)
        IN twice = once

C14_Witness == \E s \in Sensors : Updated(s) /\ HasPastAndFuture(s)

\* C15: a read of Next Candle Lighting / Next Havdalah arms no timer and
\* changes no sensor or coordinator state.
C15_NextReadChangesNothing ==
    [][last_op' = "next_native_value"
       => UNCHANGED <<data, sensors, timers, midnight_timers, started, registered, now>>]_vars

C15_Witness ==
    /\ last_op = "next_native_value"
    /\ next_native_value(data, last_run.handler, now) # NoTime
    /\ \E e \in EventsOf(data, last_run.handler) : e <= now

IsSorted(seq) == \A i \in 1..(Len(seq) - 1) : seq[i] <= seq[i + 1]

\* C16: the candle-lighting and havdalah sequences a scrape returns, and so
\* the ones in coordinator.data, are sorted ascending.
C16_Sorted ==
    /\ \A fetch \in Fetches :
           /\ IsSorted(fetch.out.value.candle_lighting)
           /\ IsSorted(fetch.out.value.havdalah)
    /\ IsSorted(data.candle_lighting)
    /\ IsSorted(data.havdalah)

C16_Witness ==
    /\ Len(data.candle_lighting) >= 2
    /\ Len(data.havdalah) >= 2

\* C17: a step that changes coordinator.data leaves the Last* sensors
\* recomputed against the new data and exactly the timer for the new next
\* boundary pending.
C17_DataChangeRecomputes ==
    [][data' # data
       => /\ \A s \in Sensors :
                 sensors'[s].past_event
                     = LargestAtOrBefore(EventsOf(data', Key(s)), now')
          /\ AllTimers' = ArmedFor(data', now')]_vars

\* C18: a read of Last Candle Lighting / Last Havdalah changes no sensor
\* field, writes no state and arms no timer.
C18_LastReadChangesNothing ==
    [][last_op' = "native_value"
       => (sensors' = sensors /\ timers' = timers /\ ~last_run'.published)]_vars

C18_Witness ==
    /\ last_op = "native_value"
    /\ \E s \in Sensors : Updated(s) /\ HasPastAndFuture(s)

\* C20: every run of update_events writes the state of the Issur Melacha
\* sensor.
C20_RecomputePublishes ==
    (Recomputed /\ last_run.updated) => last_run.published

\* the first 00:00:00 strictly after t, as a point in time
NextMidnight(t) == ((t \div DayLen) + 1) * DayLen

\* C22: when the startup or midnight handler has armed the daily timer, the
\* timer is pending for the absolute instant of the next midnight, the first
\* start of a day strictly after now.
C22_ArmedForNextMidnight ==
    (Reloaded /\ last_run.status = "returned") => midnight_timers = <<NextMidnight(now)>>

\* C24: past_event and next_event of both Last* sensors are None in every
\* reachable state, no run of update_events reaches schedule_next_update or
\* writes a state, and is_on is neither True nor False.
C24_AlwaysNone ==
    /\ \A s \in Sensors : sensors[s] = [past_event |-> NoTime, next_event |-> NoTime]
    /\ \A s \in Sensors : timers[s] = <<>>
    /\ ~last_run.published
    /\ is_on = "None"

C24_Witness ==
    /\ Recomputed
    /\ last_run.updated
    /\ \A s \in Sensors : HasPastAndFuture(s)

\* C25: at most one midnight timer of the coordinator is pending, and none
\* before the startup handler has run.
C25_AtMostOneMidnightTimer ==
    /\ Len(midnight_timers) <= 1
    /\ midnight_timers # <<>> => started

C25_Witness ==
    /\ last_op = "midnight"
    /\ last_run.status = "returned"
    /\ Len(midnight_timers) = 1

\* C26: after async_unload_entry has succeeded no timer of the coordinator is
\* pending and none of its handlers scrapes again; after a failed unload the
\* coordinator is still registered.
C26_UnloadStopsCoordinator ==
    /\ ~registered => (midnight_timers = <<>> /\ AllTimers = <<>> /\ ~Reloaded)
    /\ (last_op = "unload" /\ last_run.status = "failed") => registered

\* the map a complete parse of the page would build: one entry for every
\* cell that has a date
NewDays(resp, t) ==
    LET dated == IF resp.kind = "no_today" THEN Days \ {t \div DayLen} ELSE Days
    IN [day \in dated |-> resp.days[day]]

\* C21: after a scrape that reached parse_calendar_html, whether it returned
\* or raised, scraper.days is the complete previous map or the complete new
\* map.
C21_DaysNeverPartial ==
    [][(last_op' = "scrape" /\ last_run'.response \notin {"network_error", "bad_status"})
       => scraper'.days \in {scraper.days, NewDays(scraper'.response, now')}]_vars

\* the user step has just validated an answer of HebCal that lists no
\* candle-lighting and no havdalah item
ValidatedNoEvents ==
    /\ last_op = "step_user"
    /\ flow.answer.kind = "json"
    /\ \A i \in 1..Len(flow.answer.items) : flow.answer.items[i] = "holiday"

\* C23: when validation finds no candle-lighting and no havdalah event the
\* user step reports cannot_connect and creates no entry, and an entry is
\* created only when validate_input did not raise.
C23_NoEventsIsCannotConnect ==
    /\ ValidatedNoEvents => (flow.errors = "cannot_connect" /\ flow.result # "create_entry")
    /\ (last_op = "step_user" /\ flow.result = "create_entry") => last_run.raised = "None"

====
